---- MODULE Spec2Model ----
(***************************************************************************)
(* Model of uima_cas_to_ttl.py: the conversion of UIMA CAS exports into    *)
(* one NIF graph (cas_to_nif_graph) and the batch driver (main).           *)
(* Strings are TLA+ strings; strip(), slicing, substring search, endswith  *)
(* and splitext are computed character by character.                       *)
(***************************************************************************)
EXTENDS Integers, Sequences, FiniteSets, TLC

VARIABLES
  files,              \* os.listdir(input_folder)
  pc,                 \* position in main: "files", "annotations", "done"
  i,                  \* index of the file the loop of main is at
  cas_data,           \* the document loaded from files[i]
  document_url,       \* local of main, argument of cas_to_nif_graph
  context_uri,        \* local of cas_to_nif_graph
  j,                  \* index of the annotation the inner loop is at
  graph,              \* g, the set of triples
  annotations_found,  \* local of cas_to_nif_graph
  attempts,           \* per file, how often "Processing ..." was printed
  errors,             \* the files for which "Error processing ..." was printed
  serialized,         \* how often g.serialize was called
  saved,              \* "NIF corpus successfully saved." was printed
  exit_status,        \* -1 while main runs, then the status of the process
  permA, permB,       \* the same documents in two orders
  k,                  \* how many documents of permA and permB are processed
  gA, gB              \* the graphs built from permA and from permB

vars == <<files, pc, i, cas_data, document_url, context_uri, j, graph,
          annotations_found, attempts, errors, serialized, saved, exit_status,
          permA, permB, k, gA, gB>>

mainVars == <<files, pc, i, cas_data, document_url, context_uri, j, graph,
              annotations_found, attempts, errors, serialized, saved, exit_status>>

permVars == <<permA, permB, k, gA, gB>>

-----------------------------------------------------------------------------
(* Bounds of the model *)

MaxFiles == 2

MaxSpans == 2

MaxPermDocs == 2

-----------------------------------------------------------------------------
(* Vocabulary *)

NIF == "http://persistence.uni-leipzig.org/nlp2rdf/ontologies/nif-core#"

ITSRDF == "http://www.w3.org/2005/11/its/rdf#"

RDF_type == "http://www.w3.org/1999/02/22-rdf-syntax-ns#type"

WIKIDATA == "wikidata.org/entity"

JSON_EXT == ".json"

BASE_URL == "http://example.org/"

-----------------------------------------------------------------------------
(* Python string operations *)

Min(a, b) == IF a < b THEN a ELSE b

Max(a, b) == IF a > b THEN a ELSE b

IsSpace(c) == c \in {" ", "\t", "\n", "\r"}

RECURSIVE LStrip(_)
LStrip(s) ==
  IF Len(s) = 0 THEN s
  ELSE IF IsSpace(SubSeq(s, 1, 1)) THEN LStrip(SubSeq(s, 2, Len(s)))
  ELSE s

RECURSIVE RStrip(_)
RStrip(s) ==
  IF Len(s) = 0 THEN s
  ELSE IF IsSpace(SubSeq(s, Len(s), Len(s))) THEN RStrip(SubSeq(s, 1, Len(s) - 1))
  ELSE s

Strip(s) == RStrip(LStrip(s))

(* s[b:e]: a negative index counts from the end, both are clamped *)
SliceIndex(n, len) == IF n < 0 THEN Max(n + len, 0) ELSE Min(n, len)

Slice(s, b, e) ==
  LET lo == SliceIndex(b, Len(s))
      hi == SliceIndex(e, Len(s))
  IN IF lo >= hi THEN "" ELSE SubSeq(s, lo + 1, hi)

(* needle in s *)
Contains(s, needle) ==
  \E p \in 1..(Len(s) - Len(needle) + 1) :
     SubSeq(s, p, p + Len(needle) - 1) = needle

EndsWith(s, suffix) ==
  /\ Len(s) >= Len(suffix)
  /\ SubSeq(s, Len(s) - Len(suffix) + 1, Len(s)) = suffix

(* os.path.splitext(p)[0] for a name without directory separators *)
SplitExtRoot(p) ==
  LET dots == {d \in 1..Len(p) : SubSeq(p, d, d) = "."}
      dotIndex == IF dots = {} THEN 0 ELSE CHOOSE d \in dots : \A e \in dots : e <= d
  IN IF dotIndex > 0 /\ \E q \in 1..(dotIndex - 1) : SubSeq(p, q, q) # "."
     THEN SubSeq(p, 1, dotIndex - 1)
     ELSE p

-----------------------------------------------------------------------------
(* RDF terms and triples *)

URIRef(u) == [kind |-> "uri", str |-> u, num |-> 0]

LangLiteral(s) == [kind |-> "en", str |-> s, num |-> 0]

NonNegLiteral(n) == [kind |-> "nonNegativeInteger", str |-> ToString(n), num |-> n]

Triple(s, p, o) == <<s, p, o>>

CharUri(url, b, e) == url \o "#char=" \o ToString(b) \o "," \o ToString(e)

-----------------------------------------------------------------------------
(* cas_to_nif_graph *)

(* len(text.strip()) *)
text_length(text) == Len(Strip(text))

context_uri_of(url, text) == CharUri(url, 0, text_length(text))

(* the six graph.add calls that describe the document *)
ContextTriples(url, text) ==
  LET c == context_uri_of(url, text)
  IN { Triple(c, RDF_type, URIRef(NIF \o "RFC5147String")),
       Triple(c, RDF_type, URIRef(NIF \o "String")),
       Triple(c, RDF_type, URIRef(NIF \o "Context")),
       Triple(c, NIF \o "beginIndex", NonNegLiteral(0)),
       Triple(c, NIF \o "endIndex", NonNegLiteral(text_length(text))),
       Triple(c, NIF \o "isString", LangLiteral(text)) }

(* variant: every document starts from a fresh graph *)
AddContext_fresh(g, url, text) == ContextTriples(url, text)

AddContext(g, url, text) == g \cup ContextTriples(url, text)

(* variant: the check of end against len(text) is missing *)
InvalidPositions_begin_only(text, a) == a.begin >= a.end

(* begin >= end or end > len(text) *)
InvalidPositions(text, a) == a.begin >= a.end \/ a.end > Len(text)

(* variant: the slice is not stripped *)
entity_text_unstripped(text, a) == Slice(text, a.begin, a.end)

(* text[begin:end].strip() *)
entity_text(text, a) == Strip(Slice(text, a.begin, a.end))

(* a single string becomes a one-element list *)
UrisList(identifier) ==
  IF identifier.kind = "str" THEN <<identifier.str>> ELSE identifier.list

(* variant: the scan without break keeps the last match *)
RECURSIVE ScanUris_last(_, _)
ScanUris_last(uris, n) ==
  IF n > Len(uris) THEN ""
  ELSE LET rest == ScanUris_last(uris, n + 1)
       IN IF rest # "" THEN rest
          ELSE IF Contains(uris[n], WIKIDATA) THEN uris[n] ELSE ""

(* the scan with break: the first u with 'wikidata.org/entity' in u; "" is None *)
RECURSIVE ScanUris(_, _)
ScanUris(uris, n) ==
  IF n > Len(uris) THEN ""
  ELSE IF Contains(uris[n], WIKIDATA) THEN uris[n]
  ELSE ScanUris(uris, n + 1)

wikidata_uri(a) ==
  IF a.identifier.kind = "none" THEN "" ELSE ScanUris(UrisList(a.identifier), 1)

(* the annotation reaches the graph.add calls of the loop body *)
Linked(text, a) ==
  /\ a.has_offsets
  /\ ~InvalidPositions(text, a)
  /\ entity_text(text, a) # ""
  /\ wikidata_uri(a) # ""

entity_uri_of(url, a) == CharUri(url, a.begin, a.end)

EntityTriples(url, ctx, text, a) ==
  LET e == entity_uri_of(url, a)
  IN { Triple(e, RDF_type, URIRef(NIF \o "RFC5147String")),
       Triple(e, RDF_type, URIRef(NIF \o "String")),
       Triple(e, NIF \o "anchorOf", LangLiteral(entity_text(text, a))),
       Triple(e, NIF \o "beginIndex", NonNegLiteral(a.begin)),
       Triple(e, NIF \o "endIndex", NonNegLiteral(a.end)),
       Triple(e, NIF \o "referenceContext", URIRef(ctx)) }

(* URIRef(uri) does not raise for a string, so the triple is always added *)
IdentRefTriples(url, a) ==
  { Triple(entity_uri_of(url, a), ITSRDF \o "taIdentRef", URIRef(wikidata_uri(a))) }

(* one iteration of the loop over cas_data.select_all() *)
HandleAnnotation(g, url, ctx, text, a) ==
  IF Linked(text, a)
  THEN g \cup EntityTriples(url, ctx, text, a) \cup IdentRefTriples(url, a)
  ELSE g

RECURSIVE HandleAll(_, _, _, _, _, _)
HandleAll(g, url, ctx, text, annotations, n) ==
  IF n > Len(annotations) THEN g
  ELSE HandleAll(HandleAnnotation(g, url, ctx, text, annotations[n]),
                 url, ctx, text, annotations, n + 1)

(* the whole function; a missing sofa string raises before the graph changes *)
cas_to_nif_graph(cas, url, g) ==
  IF ~cas.has_text THEN g
  ELSE IF text_length(cas.text) = 0 THEN g
  ELSE HandleAll(AddContext(g, url, cas.text), url, context_uri_of(url, cas.text),
                 cas.text, cas.annotations, 1)

-----------------------------------------------------------------------------
(* Inputs *)

WD64 == "http://www.wikidata.org/entity/Q64"

WD42 == "https://wikidata.org/entity/Q42"

DBP == "http://dbpedia.org/resource/Berlin"

NoIdentifier == [kind |-> "none", str |-> "", list |-> <<>>]

StrIdentifier(s) == [kind |-> "str", str |-> s, list |-> <<>>]

ListIdentifier(l) == [kind |-> "list", str |-> "", list |-> l]

Annotation(b, e, id) == [has_offsets |-> TRUE, begin |-> b, end |-> e, identifier |-> id]

Annotations ==
  { Annotation(0, 3, StrIdentifier(WD64)),
    Annotation(1, 4, ListIdentifier(<<DBP, WD64>>)),
    Annotation(0, 5, ListIdentifier(<<WD42, WD64>>)),
    Annotation(-2, 3, ListIdentifier(<<WD64>>)),
    Annotation(2, 2, StrIdentifier(WD64)),
    Annotation(0, 1, StrIdentifier(WD64)),
    Annotation(1, 3, NoIdentifier),
    Annotation(1, 3, ListIdentifier(<<DBP>>)),
    [has_offsets |-> FALSE, begin |-> 0, end |-> 0, identifier |-> StrIdentifier(WD64)] }

Texts == {"", " \n", "Rom", " Rom "}

SeqsUpTo(S, n) == UNION {[1..m -> S] : m \in 0..n}

Cas(n) ==
  [has_text : {TRUE}, text : Texts, annotations : SeqsUpTo(Annotations, n)]
    \cup {[has_text |-> FALSE, text |-> "", annotations |-> <<>>]}

NoCas == [has_text |-> FALSE, text |-> "", annotations |-> <<>>]

FileNames == {"a.json", "b.json", "notes.txt"}

Listings ==
  {l \in SeqsUpTo(FileNames, MaxFiles) : \A m, n \in 1..Len(l) : m # n => l[m] # l[n]}

-----------------------------------------------------------------------------
(* main *)

document_url_of(filename) == BASE_URL \o SplitExtRoot(filename)

Init ==
  /\ files \in Listings
  /\ pc = "files"
  /\ i = 1
  /\ cas_data = NoCas
  /\ document_url = ""
  /\ context_uri = ""
  /\ j = 0
  /\ graph = {}
  /\ annotations_found = FALSE
  /\ attempts = [n \in 1..Len(files) |-> 0]
  /\ errors = {}
  /\ serialized = 0
  /\ saved = FALSE
  /\ exit_status = -1
  /\ permA = <<>>
  /\ permB = <<>>
  /\ k = 0
  /\ gA = {}
  /\ gB = {}

AtFile == pc = "files" /\ i <= Len(files)

IsJson == EndsWith(files[i], JSON_EXT)

NextFile ==
  /\ pc' = "files"
  /\ i' = i + 1
  /\ cas_data' = NoCas
  /\ document_url' = ""
  /\ context_uri' = ""
  /\ j' = 0
  /\ annotations_found' = FALSE

Attempt == attempts' = [attempts EXCEPT ![i] = @ + 1]

(* not a JSON file *)
SkipFile ==
  /\ AtFile
  /\ ~IsJson
  /\ NextFile
  /\ UNCHANGED <<files, graph, attempts, errors, serialized, saved, exit_status, permVars>>

(* variant: the exception is not caught and ends main *)
LoadError_abort ==
  /\ AtFile
  /\ IsJson
  /\ Attempt
  /\ errors' = errors \cup {i}
  /\ pc' = "done"
  /\ exit_status' = 1
  /\ UNCHANGED <<files, i, cas_data, document_url, context_uri, j, graph,
                 annotations_found, serialized, saved, permVars>>

(* open() or cassis.load_cas_from_json raises; caught at line 145 *)
LoadError ==
  /\ AtFile
  /\ IsJson
  /\ Attempt
  /\ errors' = errors \cup {i}
  /\ NextFile
  /\ UNCHANGED <<files, graph, serialized, saved, exit_status, permVars>>

(* sofa_string is None: text.strip() raises; caught at line 145 *)
ProcessError ==
  /\ AtFile
  /\ IsJson
  /\ Attempt
  /\ NextFile
  /\ errors' = errors \cup {i}
  /\ graph' = cas_to_nif_graph(NoCas, document_url_of(files[i]), graph)
  /\ UNCHANGED <<files, serialized, saved, exit_status, permVars>>

(* text_length == 0: warning and return *)
EmptyDocument ==
  /\ AtFile
  /\ IsJson
  /\ \E cas \in Cas(MaxSpans) :
       /\ cas.has_text
       /\ text_length(cas.text) = 0
       /\ graph' = cas_to_nif_graph(cas, document_url_of(files[i]), graph)
  /\ Attempt
  /\ NextFile
  /\ UNCHANGED <<files, errors, serialized, saved, exit_status, permVars>>

(* lines 13-35: the document is loaded and its Context node is added *)
StartDocument ==
  /\ AtFile
  /\ IsJson
  /\ \E cas \in Cas(MaxSpans) :
       /\ cas.has_text
       /\ text_length(cas.text) # 0
       /\ cas_data' = cas
       /\ document_url' = document_url_of(files[i])
       /\ context_uri' = context_uri_of(document_url_of(files[i]), cas.text)
       /\ graph' = AddContext(graph, document_url_of(files[i]), cas.text)
  /\ Attempt
  /\ pc' = "annotations"
  /\ j' = 1
  /\ annotations_found' = FALSE
  /\ UNCHANGED <<files, i, errors, serialized, saved, exit_status, permVars>>

(* lines 36-92: one iteration of the annotation loop *)
NextAnnotation ==
  /\ pc = "annotations"
  /\ j <= Len(cas_data.annotations)
  /\ graph' = HandleAnnotation(graph, document_url, context_uri, cas_data.text,
                               cas_data.annotations[j])
  /\ annotations_found' = (annotations_found \/ Linked(cas_data.text, cas_data.annotations[j]))
  /\ j' = j + 1
  /\ UNCHANGED <<files, pc, i, cas_data, document_url, context_uri, attempts,
                 errors, serialized, saved, exit_status, permVars>>

(* lines 94-95: the loop is exhausted and cas_to_nif_graph returns *)
EndDocument ==
  /\ pc = "annotations"
  /\ j > Len(cas_data.annotations)
  /\ NextFile
  /\ UNCHANGED <<files, graph, attempts, errors, serialized, saved, exit_status, permVars>>

(* lines 150-162: g.serialize succeeds or raises; either way main returns *)
Serialize ==
  /\ pc = "files"
  /\ i > Len(files)
  /\ \E ok \in BOOLEAN : saved' = ok
  /\ serialized' = serialized + 1
  /\ exit_status' = 0
  /\ pc' = "done"
  /\ UNCHANGED <<files, i, cas_data, document_url, context_uri, j, graph,
                 annotations_found, attempts, errors, permVars>>

Next ==
  \/ SkipFile
  \/ LoadError
  \/ ProcessError
  \/ EmptyDocument
  \/ StartDocument
  \/ NextAnnotation
  \/ EndDocument
  \/ Serialize

Spec == Init /\ [][Next]_vars

-----------------------------------------------------------------------------
(* The same documents converted in two orders *)

PermUrls == {BASE_URL \o "a", BASE_URL \o "b"}

PermCas ==
  { NoCas,
    [has_text |-> TRUE, text |-> " \n", annotations |-> <<>>],
    [has_text |-> TRUE, text |-> "Rom",
     annotations |-> <<Annotation(0, 3, StrIdentifier(WD64))>>],
    [has_text |-> TRUE, text |-> " Rom ",
     annotations |-> <<Annotation(0, 3, StrIdentifier(WD64)),
                       Annotation(0, 5, ListIdentifier(<<WD42, WD64>>))>>],
    [has_text |-> TRUE, text |-> "Rom",
     annotations |-> <<Annotation(-2, 3, ListIdentifier(<<WD64>>)),
                       Annotation(1, 3, ListIdentifier(<<DBP>>))>>],
    [has_text |-> TRUE, text |-> " Rom ", annotations |-> <<>>] }

PermDocs == [url : PermUrls, cas : PermCas]

Orders(n) ==
  {f \in [1..n -> 1..n] : \A m1, m2 \in 1..n : m1 # m2 => f[m1] # f[m2]}

Reorder(docs, f) == [m \in 1..Len(docs) |-> docs[f[m]]]

InitPerm ==
  /\ permA \in SeqsUpTo(PermDocs, MaxPermDocs)
  /\ permB \in {Reorder(permA, f) : f \in Orders(Len(permA))}
  /\ k = 0
  /\ gA = {}
  /\ gB = {}
  /\ files = <<>>
  /\ pc = "done"
  /\ i = 1
  /\ cas_data = NoCas
  /\ document_url = ""
  /\ context_uri = ""
  /\ j = 0
  /\ graph = {}
  /\ annotations_found = FALSE
  /\ attempts = <<>>
  /\ errors = {}
  /\ serialized = 0
  /\ saved = FALSE
  /\ exit_status = -1

(* cas_to_nif_graph on the next document of each order *)
ConvertNext ==
  /\ k < Len(permA)
  /\ gA' = cas_to_nif_graph(permA[k + 1].cas, permA[k + 1].url, gA)
  /\ gB' = cas_to_nif_graph(permB[k + 1].cas, permB[k + 1].url, gB)
  /\ k' = k + 1
  /\ UNCHANGED <<permA, permB, mainVars>>

NextPerm == ConvertNext

SpecPerm == InitPerm /\ [][NextPerm]_vars

-----------------------------------------------------------------------------
(* Vocabulary of the properties *)

TypeTriple(s, t) == Triple(s, RDF_type, URIRef(NIF \o t))

Offsets(url, b, e) == url \o "#char=" \o ToString(b) \o "," \o ToString(e)

Trimmed(s) == Strip(s)

(* the annotation the inner loop handles next, and those it has handled *)
InLoop == pc = "annotations" /\ j <= Len(cas_data.annotations)

HandledIndexes == IF pc = "annotations" THEN 1..(j - 1) ELSE {}

(* the identifiers of a span as a sequence: a single string is one element *)
Identifiers(a) ==
  IF a.identifier.kind = "none" THEN <<>>
  ELSE IF a.identifier.kind = "str" THEN <<a.identifier.str>>
  ELSE a.identifier.list

WikidataIndexes(a) ==
  {n \in 1..Len(Identifiers(a)) : Contains(Identifiers(a)[n], WIKIDATA)}

FirstWikidata(a) ==
  Identifiers(a)[CHOOSE n \in WikidataIndexes(a) : \A m \in WikidataIndexes(a) : n <= m]

PassesBounds(text, a) == a.has_offsets /\ a.begin < a.end /\ a.end <= Len(text)

PassesEmptiness(text, a) == Trimmed(Slice(text, a.begin, a.end)) # ""

ValidLinkable(text, a) ==
  /\ PassesBounds(text, a)
  /\ PassesEmptiness(text, a)
  /\ WikidataIndexes(a) # {}

SkippedByValidation(text, a) ==
  /\ a.has_offsets
  /\ \/ a.begin >= a.end
     \/ a.end > Len(text)
     \/ Trimmed(Slice(text, a.begin, a.end)) = ""
     \/ WikidataIndexes(a) = {}

IdentRefs(g) == {t \in g : t[2] = ITSRDF \o "taIdentRef"}

IndexValues(g, s, p) == {t[3].num : t \in {u \in g : u[1] = s /\ u[2] = NIF \o p}}

-----------------------------------------------------------------------------
(* C1: for a document whose trimmed text is not empty, whatever its spans,   *)
(* the graph holds the Context node {documentURL}#char=0,{textLength} with   *)
(* its three types, beginIndex 0, endIndex textLength and isString equal to  *)
(* the trimmed text tagged as English.                                       *)
C1_ContextNode ==
  pc = "annotations" =>
    LET len == Len(Trimmed(cas_data.text))
        c == Offsets(document_url, 0, len)
    IN { TypeTriple(c, "RFC5147String"),
         TypeTriple(c, "String"),
         TypeTriple(c, "Context"),
         Triple(c, NIF \o "beginIndex", NonNegLiteral(0)),
         Triple(c, NIF \o "endIndex", NonNegLiteral(len)),
         Triple(c, NIF \o "isString", LangLiteral(Trimmed(cas_data.text))) } \subseteq graph

(* C2: every handled span that passes the bounds check and the emptiness     *)
(* check and has an identifier containing 'wikidata.org/entity' has its      *)
(* Entity node {documentURL}#char={begin},{end} in the graph: the type       *)
(* triples, anchorOf = text[begin:end] trimmed, beginIndex, endIndex and     *)
(* referenceContext = the Context node of the document.                      *)
C2_EntityNode ==
  \A n \in HandledIndexes :
    LET a == cas_data.annotations[n]
        e == Offsets(document_url, a.begin, a.end)
        c == Offsets(document_url, 0, Len(Trimmed(cas_data.text)))
    IN ValidLinkable(cas_data.text, a) =>
         /\ { TypeTriple(e, "RFC5147String"),
              TypeTriple(e, "String"),
              Triple(e, NIF \o "anchorOf",
                     LangLiteral(Trimmed(Slice(cas_data.text, a.begin, a.end)))),
              Triple(e, NIF \o "beginIndex", NonNegLiteral(a.begin)),
              Triple(e, NIF \o "endIndex", NonNegLiteral(a.end)),
              Triple(e, NIF \o "referenceContext", URIRef(c)) } \subseteq graph
         /\ TypeTriple(c, "Context") \in graph

(* a linkable span whose slice had whitespace to trim has been handled *)
C2_Witness ==
  \E n \in HandledIndexes :
    LET a == cas_data.annotations[n]
    IN /\ ValidLinkable(cas_data.text, a)
       /\ Slice(cas_data.text, a.begin, a.end) # Trimmed(Slice(cas_data.text, a.begin, a.end))
       /\ Triple(Offsets(document_url, a.begin, a.end), NIF \o "anchorOf",
                 LangLiteral(Trimmed(Slice(cas_data.text, a.begin, a.end)))) \in graph

(* C3: handling a valid span emits, as its taIdentRef, the first identifier  *)
(* in sequence order that contains 'wikidata.org/entity' (a single string    *)
(* counting as a one-element sequence), and no other taIdentRef triple; a    *)
(* valid span without such an identifier emits none.                         *)
C3_FirstWikidataIdentifier ==
  [][ (InLoop /\ j' = j + 1
        /\ PassesBounds(cas_data.text, cas_data.annotations[j])
        /\ PassesEmptiness(cas_data.text, cas_data.annotations[j]))
      => LET a == cas_data.annotations[j]
             ref == Triple(Offsets(document_url, a.begin, a.end),
                           ITSRDF \o "taIdentRef", URIRef(FirstWikidata(a)))
         IN IF WikidataIndexes(a) # {}
            THEN /\ ref \in graph'
                 /\ IdentRefs(graph') \subseteq IdentRefs(graph) \cup {ref}
            ELSE IdentRefs(graph') = IdentRefs(graph) ]_vars

(* a span whose second identifier is the first Wikidata one has been linked *)
C3_Witness ==
  \E n \in HandledIndexes :
    LET a == cas_data.annotations[n]
    IN /\ ValidLinkable(cas_data.text, a)
       /\ Len(Identifiers(a)) >= 2
       /\ ~Contains(Identifiers(a)[1], WIKIDATA)
       /\ Triple(Offsets(document_url, a.begin, a.end), ITSRDF \o "taIdentRef",
                 URIRef(Identifiers(a)[2])) \in graph

(* C4: a span skipped by validation (begin >= end, end > len(text), text     *)
(* that trims to empty, no identifier or none containing                     *)
(* 'wikidata.org/entity') leaves the graph as it was, the loop goes on to    *)
(* the next span of the same document, and the loop is left only once every  *)
(* span has been handled.                                                    *)
C4_SkippedSpanChangesNothing ==
  /\ [][ (InLoop /\ SkippedByValidation(cas_data.text, cas_data.annotations[j]))
         => /\ graph' = graph
            /\ pc' = "annotations"
            /\ cas_data' = cas_data
            /\ j' = j + 1 ]_vars
  /\ [][ (pc = "annotations" /\ pc' # "annotations")
         => j > Len(cas_data.annotations) ]_vars

(* a span was skipped and the span after it was linked *)
C4_Witness ==
  \E n \in HandledIndexes :
    /\ n + 1 \in HandledIndexes
    /\ SkippedByValidation(cas_data.text, cas_data.annotations[n])
    /\ ValidLinkable(cas_data.text, cas_data.annotations[n + 1])
    /\ IdentRefs(graph) # {}

(* C5: every Entity node of the document at hand comes from a valid span:    *)
(* 0 <= begin < end <= len(text) and text[begin:end] not empty once trimmed. *)
C5_EntityFromValidSpan ==
  pc = "annotations" =>
    \A t \in graph :
      (t[2] = NIF \o "referenceContext" /\ t[3] = URIRef(context_uri)) =>
        \A b \in IndexValues(graph, t[1], "beginIndex") :
          \A e \in IndexValues(graph, t[1], "endIndex") :
            /\ 0 <= b
            /\ b < e
            /\ e <= Len(cas_data.text)
            /\ Trimmed(Slice(cas_data.text, b, e)) # ""

(* C6: every file with the recognized extension is attempted exactly once,   *)
(* in listing order, whichever files fail; the serializer runs exactly once, *)
(* after the last file.                                                      *)
C6_BatchSurvivesFailures ==
  /\ \A n \in 1..Len(files) :
       attempts[n] = IF /\ EndsWith(files[n], ".json")
                        /\ (n < i \/ (n = i /\ pc = "annotations"))
                     THEN 1 ELSE 0
  /\ errors \subseteq {n \in 1..Len(files) : attempts[n] = 1}
  /\ serialized <= 1
  /\ serialized = 1 => (pc = "done" /\ i > Len(files))
  /\ pc = "done" => serialized = 1

(* a file failed, a later file was converted, and the graph was serialized *)
C6_Witness ==
  /\ pc = "done"
  /\ serialized = 1
  /\ graph # {}
  /\ \E m \in errors : \E n \in 1..Len(files) : m < n /\ attempts[n] = 1 /\ n \notin errors

(* C7: the run ends in failure exactly when the final write failed; errors   *)
(* of single documents and spans never change the outcome.                   *)
C7_WriteFailureSurfaced ==
  pc = "done" => (exit_status # 0 <=> ~saved)

(* C8: the same documents converted in two orders give the same triples, and *)
(* no conversion removes a triple.                                           *)
C8_OrderIndependent ==
  /\ [](k = Len(permA) => gA = gB)
  /\ [][gA \subseteq gA' /\ gB \subseteq gB']_vars

(* two documents that both add triples were converted in both orders *)
C8_Witness ==
  /\ k = 2
  /\ Len(permA) = 2
  /\ permA # permB
  /\ cas_to_nif_graph(permA[1].cas, permA[1].url, {}) # {}
  /\ cas_to_nif_graph(permA[2].cas, permA[2].url, {}) # {}
  /\ cas_to_nif_graph(permA[1].cas, permA[1].url, {}) # gA
  /\ cas_to_nif_graph(permA[2].cas, permA[2].url, {}) # gA

(* the end of an Entity node is not beyond the end of the Context it references *)
EndsInsideContext(t, e) ==
  \A ce \in IndexValues(graph, t[3].str, "endIndex") : e <= ce

(* C9: the range of every Entity node lies inside the range of the Context   *)
(* node it references: 0 <= beginIndex < endIndex <= endIndex of the Context.*)
C9_EntityInsideContext ==
  \A t \in graph :
    t[2] = NIF \o "referenceContext" =>
      \A b \in IndexValues(graph, t[1], "beginIndex") :
        \A e \in IndexValues(graph, t[1], "endIndex") :
          /\ 0 <= b
          /\ b < e
          /\ EndsInsideContext(t, e)

(* C10: no node is both a Context node and the subject of anchorOf or        *)
(* taIdentRef, and no node is its own referenceContext.                      *)
C10_ContextAndEntityDisjoint ==
  \A t \in graph :
    /\ t[2] \in {NIF \o "anchorOf", ITSRDF \o "taIdentRef"}
         => TypeTriple(t[1], "Context") \notin graph
    /\ t[2] = NIF \o "referenceContext" => t[3].str # t[1]

====
